---- MODULE Spec2Model ----
(***************************************************************************)
(* LibvirtController (discovery-infra/test_infra/controllers/              *)
(* node_controllers/libvirt_controller.py): node lifecycle, node listing   *)
(* and descriptor mutation over a hypervisor session.                      *)
(*                                                                         *)
(* The controller is single-threaded and synchronous: one operation runs   *)
(* at a time.  pc = "idle" is the state between two operations; call and   *)
(* ret keep the last operation and its outcome until the next one starts.  *)
(* log is the sequence of hypervisor calls (and of entries into            *)
(* start_node / shutdown_node) made by the operation in progress, raised   *)
(* the set of failures the hypervisor raised during it.                    *)
(***************************************************************************)
EXTENDS Integers, Sequences, FiniteSets, TLC

VARIABLES domains, active, desc, connOpen, pc, call, ret, cur, todo, phases,
          polls, log, raised, submitted

vars == <<domains, active, desc, connOpen, pc, call, ret, cur, todo, phases,
          polls, log, raised, submitted>>

(***************************************************************************)
(* Bounds                                                                  *)
(***************************************************************************)
MaxPolls == 2
MaxDomains == 3
MaxBootElements == 3

(***************************************************************************)
(* Names are sequences of characters, so that Python's `in` on strings is  *)
(* substring containment.                                                  *)
(***************************************************************************)
MASTER == <<"m", "a", "s", "t", "e", "r">>
WORKER == <<"w", "o", "r", "k", "e", "r">>

Master0 == MASTER \o <<"-", "0">>
Worker0 == <<"x", "-">> \o WORKER
Bootstrap == <<"b", "o", "o", "t">>
Unknown == <<"n", "o">>

None == <<"None">>

\* Python `sub in s` for strings.
Contains(sub, s) ==
    \E i \in 0..(Len(s) - Len(sub)) : SubSeq(s, i + 1, i + Len(sub)) = sub

\* Python truthiness of a name filter: None and "" are falsy.
Truthy(name_filter) == name_filter # None /\ name_filter # <<>>

list_nodes_with_name_filter_drop_role(doms, name_filter) ==
    SelectSeq(doms, LAMBDA d : ~(Truthy(name_filter) /\ ~Contains(name_filter, d)))

list_nodes_with_name_filter(doms, name_filter) ==
    SelectSeq(doms, LAMBDA d :
        /\ ~(Truthy(name_filter) /\ ~Contains(name_filter, d))
        /\ (Contains(MASTER, d) \/ Contains(WORKER, d)))

list_nodes(doms) == list_nodes_with_name_filter(doms, None)

Range(s) == {s[i] : i \in 1..Len(s)}

(***************************************************************************)
(* Failures and results                                                    *)
(***************************************************************************)
NoExc == [type |-> "none", api |-> "", node |-> None, fn |-> ""]
Failure(type, api, node, fn) == [type |-> type, api |-> api, node |-> node, fn |-> fn]
LibvirtError(api, node, fn) == Failure("libvirtError", api, node, fn)
TimeoutExpired(node) == Failure("TimeoutExpired", "", node, "_wait_till_domain_has_ips")

Ok(v) == [status |-> "ok", value |-> v, exc |-> NoExc]
Raise(e) == [status |-> "raise", value |-> None, exc |-> e]
Pending == [status |-> "pending", value |-> None, exc |-> NoExc]

Entry(api, node, fn) == [api |-> api, node |-> node, fn |-> fn]

Call(op, node, arg) == [op |-> op, node |-> node, arg |-> arg]


(***************************************************************************)
(* Lifecycle: shutdown_node, start_node, restart_node, the *_all_nodes     *)
(* loops, is_active, get_node_ips_and_macs, __del__                        *)
(***************************************************************************)
LifecycleDomains == <<Master0, Worker0, Bootstrap>>

NameInputs == Range(domains) \cup {Unknown}

\* An exception that leaves the operation: the operation is over.
Fail(e) ==
    /\ pc' = "idle"
    /\ ret' = Raise(e)
    /\ cur' = None /\ todo' = <<>> /\ phases' = <<>> /\ polls' = 0

\* The operation returns v.
Done(v) ==
    /\ pc' = "idle"
    /\ ret' = Ok(v)
    /\ cur' = None /\ todo' = <<>> /\ phases' = <<>> /\ polls' = 0

\* shutdown_node without the isActive() test.
shutdown_node_unconditional(node_name, act, lg, destroyFails) ==
    LET lg1 == Append(lg, Entry("shutdown_node", node_name, "shutdown_node"))
        lg2 == Append(lg1, Entry("destroy", node_name, "shutdown_node"))
    IN  IF node_name \notin Range(domains)
        THEN [active |-> act, log |-> lg1,
              exc |-> LibvirtError("lookupByName", node_name, "shutdown_node")]
        ELSE IF destroyFails
             THEN [active |-> act, log |-> lg2,
                   exc |-> LibvirtError("destroy", node_name, "shutdown_node")]
             ELSE [active |-> [act EXCEPT ![node_name] = FALSE], log |-> lg2,
                   exc |-> NoExc]

\* shutdown_node(node_name): the active map, the log and the exception (or
\* NoExc) it leaves; destroyFails is the hypervisor's answer to destroy().
shutdown_node(node_name, act, lg, destroyFails) ==
    LET lg1 == Append(lg, Entry("shutdown_node", node_name, "shutdown_node"))
        lg2 == Append(lg1, Entry("destroy", node_name, "shutdown_node"))
    IN  IF node_name \notin Range(domains)
        THEN [active |-> act, log |-> lg1,
              exc |-> LibvirtError("lookupByName", node_name, "shutdown_node")]
        ELSE IF act[node_name]
             THEN IF destroyFails
                  THEN [active |-> act, log |-> lg2,
                        exc |-> LibvirtError("destroy", node_name, "shutdown_node")]
                  ELSE [active |-> [act EXCEPT ![node_name] = FALSE], log |-> lg2,
                        exc |-> NoExc]
             ELSE [active |-> act, log |-> lg1, exc |-> NoExc]

CallShutdownNode ==
    /\ pc = "idle" /\ connOpen
    /\ \E n \in NameInputs, destroyFails \in BOOLEAN :
         LET r == shutdown_node(n, active, <<>>, destroyFails)
         IN  /\ call' = Call("shutdown_node", n, None)
             /\ active' = r.active
             /\ log' = r.log
             /\ raised' = IF r.exc = NoExc THEN {} ELSE {r.exc}
             /\ IF r.exc = NoExc THEN Done(None) ELSE Fail(r.exc)
    /\ submitted' = <<>>
    /\ UNCHANGED <<domains, desc, connOpen>>

\* start_node never powers on.
start_node_needs_power_on_never(isActive) == FALSE

\* `if not node.isActive():`
start_node_needs_power_on(isActive) == ~isActive

\* The except clause catches every exception.
Caught_any(e) == TRUE

\* `except waiting.exceptions.TimeoutExpired:`
Caught(e) == e.type = "TimeoutExpired"

\* `expected_exceptions=Exception`: waiting.wait swallows every exception of
\* the poll predicate and polls again.
ExpectedException(e) == TRUE

\* start_node returns to its caller.
StartNodeReturns ==
    IF call.op = "start_all_nodes"
    THEN /\ pc' = "start_all_loop"
         /\ todo' = Tail(todo)
         /\ cur' = None /\ polls' = 0
         /\ UNCHANGED <<ret, phases>>
    ELSE Done(None)

\* The except clause also takes what its own retry raises: the retry repeats.
StartNodeRaises_retry_again(e, at) ==
    IF at \in {"create1", "wait1", "create2", "wait2"} /\ Caught(e)
    THEN /\ pc' = "retry_shutdown"
         /\ polls' = 0
         /\ UNCHANGED <<ret, cur, todo, phases>>
    ELSE Fail(e)

\* e is raised inside start_node at position `at`: inside the try block the
\* except clause may take it, anywhere else it leaves the operation.
StartNodeRaises(e, at) ==
    IF at \in {"create1", "wait1"} /\ Caught(e)
    THEN /\ pc' = "retry_shutdown"
         /\ polls' = 0
         /\ UNCHANGED <<ret, cur, todo, phases>>
    ELSE Fail(e)

CallStartNode ==
    /\ pc = "idle" /\ connOpen
    /\ \E n \in NameInputs :
         /\ call' = Call("start_node", n, None)
         /\ cur' = n
    /\ pc' = "start_node"
    /\ ret' = Pending
    /\ log' = <<>> /\ raised' = {} /\ submitted' = <<>>
    /\ UNCHANGED <<domains, active, desc, connOpen, todo, phases, polls>>

CallRestartNode ==
    /\ pc = "idle" /\ connOpen
    /\ \E n \in NameInputs, destroyFails \in BOOLEAN :
         LET r == shutdown_node(n, active, <<>>, destroyFails)
         IN  /\ call' = Call("restart_node", n, None)
             /\ active' = r.active
             /\ log' = r.log
             /\ raised' = IF r.exc = NoExc THEN {} ELSE {r.exc}
             /\ IF r.exc = NoExc
                THEN /\ pc' = "start_node"
                     /\ cur' = n
                     /\ ret' = Pending
                     /\ UNCHANGED <<todo, phases, polls>>
                ELSE Fail(r.exc)
    /\ submitted' = <<>>
    /\ UNCHANGED <<domains, desc, connOpen>>

\* start_node, lines 60-63: lookup and the isActive() test.
StartNode ==
    /\ pc = "start_node"
    /\ log' = Append(log, Entry("start_node", cur, "start_node"))
    /\ IF cur \notin Range(domains)
       THEN LET e == LibvirtError("lookupByName", cur, "start_node")
            IN  raised' = raised \cup {e} /\ Fail(e)
       ELSE /\ raised' = raised
            /\ IF start_node_needs_power_on(active[cur])
               THEN /\ pc' = "create1"
                    /\ UNCHANGED <<ret, cur, todo, phases, polls>>
               ELSE StartNodeReturns
    /\ UNCHANGED <<domains, active, desc, connOpen, call, submitted>>

\* node.create() followed by the entry into _wait_till_domain_has_ips.
Create ==
    /\ pc \in {"create1", "create2"}
    /\ \E fails \in BOOLEAN :
         LET e == LibvirtError("create", cur, "start_node")
             lg == Append(log, Entry("create", cur, "start_node"))
         IN  IF fails
             THEN /\ log' = lg
                  /\ raised' = raised \cup {e}
                  /\ StartNodeRaises(e, pc)
                  /\ UNCHANGED active
             ELSE /\ log' = Append(lg, Entry("wait", cur, "_wait_till_domain_has_ips"))
                  /\ raised' = raised
                  /\ active' = [active EXCEPT ![cur] = TRUE]
                  /\ pc' = IF pc = "create1" THEN "wait1" ELSE "wait2"
                  /\ polls' = 0
                  /\ UNCHANGED <<ret, cur, todo, phases>>
    /\ UNCHANGED <<domains, desc, connOpen, call, submitted>>

\* One round of waiting.wait: the predicate is evaluated, and if it did not
\* hold the timeout is tested.  The timeout (360 s, polled every 5 s) may
\* expire after any round and has expired after MaxPolls rounds.
Poll ==
    /\ pc \in {"wait1", "wait2"}
    /\ \E outcome \in {"ips", "noips", "error"}, expired \in BOOLEAN :
         LET e == LibvirtError("interfaceAddresses", cur, "_wait_till_domain_has_ips")
             t == TimeoutExpired(cur)
         IN  /\ raised' = IF outcome = "error" THEN raised \cup {e} ELSE raised
             /\ IF outcome = "error" /\ ~ExpectedException(e)
                THEN log' = log /\ StartNodeRaises(e, pc)
                ELSE IF outcome = "ips"
                THEN log' = log /\ StartNodeReturns
                ELSE IF expired \/ polls + 1 >= MaxPolls
                THEN /\ log' = Append(log, Entry("TimeoutExpired", cur,
                                                 "_wait_till_domain_has_ips"))
                     /\ StartNodeRaises(t, pc)
                ELSE /\ log' = log
                     /\ polls' = polls + 1
                     /\ UNCHANGED <<pc, ret, cur, todo, phases>>
    /\ UNCHANGED <<domains, active, desc, connOpen, call, submitted>>

\* The except clause, line 69: self.shutdown_node(node_name).
RetryShutdown ==
    /\ pc = "retry_shutdown"
    /\ \E destroyFails \in BOOLEAN :
         LET r == shutdown_node(cur, active, log, destroyFails)
         IN  /\ active' = r.active
             /\ log' = r.log
             /\ IF r.exc = NoExc
                THEN /\ raised' = raised
                     /\ pc' = "create2"
                     /\ UNCHANGED <<ret, cur, todo, phases, polls>>
                ELSE /\ raised' = raised \cup {r.exc}
                     /\ Fail(r.exc)
    /\ UNCHANGED <<domains, desc, connOpen, call, submitted>>


CallStartAllNodes ==
    /\ pc = "idle" /\ connOpen
    /\ call' = Call("start_all_nodes", None, None)
    /\ log' = <<>> /\ submitted' = <<>>
    /\ \E listFails \in BOOLEAN :
         IF listFails
         THEN LET e == LibvirtError("listAllDomains", None, "list_nodes_with_name_filter")
              IN  raised' = {e} /\ Fail(e)
         ELSE /\ raised' = {}
              /\ todo' = list_nodes(domains)
              /\ pc' = "start_all_loop"
              /\ ret' = Pending
              /\ UNCHANGED <<cur, phases, polls>>
    /\ UNCHANGED <<domains, active, desc, connOpen>>

\* `for node in nodes: self.start_node(node.name())`, then `return nodes`.
StartAllLoop ==
    /\ pc = "start_all_loop"
    /\ IF todo = <<>>
       THEN Done(list_nodes(domains))
       ELSE /\ cur' = Head(todo)
            /\ pc' = "start_node"
            /\ UNCHANGED <<ret, todo, phases, polls>>
    /\ UNCHANGED <<domains, active, desc, connOpen, call, log, raised, submitted>>

\* destroy_all_nodes formats before it shuts down.
destroy_all_nodes_format_first == <<"format_all_node_disks", "shutdown_all_nodes">>

\* destroy_all_nodes: the two calls it makes, in order.
destroy_all_nodes == <<"shutdown_all_nodes", "format_all_node_disks">>

\* shutdown_all_nodes, format_all_node_disks, destroy_all_nodes.
CallAllNodes ==
    /\ pc = "idle" /\ connOpen
    /\ \E op \in {"shutdown_all_nodes", "format_all_node_disks", "destroy_all_nodes"} :
         /\ call' = Call(op, None, None)
         /\ phases' = IF op = "destroy_all_nodes" THEN destroy_all_nodes ELSE <<op>>
    /\ pc' = "phase"
    /\ ret' = Pending
    /\ log' = <<>> /\ raised' = {} /\ submitted' = <<>>
    /\ UNCHANGED <<domains, active, desc, connOpen, cur, todo, polls>>

\* Entry into shutdown_all_nodes or format_all_node_disks: nodes = self.list_nodes();
\* with no call left the operation returns.
Phase ==
    /\ pc = "phase"
    /\ IF phases = <<>>
       THEN raised' = raised /\ Done(None)
       ELSE \E listFails \in BOOLEAN :
              IF listFails
              THEN LET e == LibvirtError("listAllDomains", None,
                                         "list_nodes_with_name_filter")
                   IN  raised' = raised \cup {e} /\ Fail(e)
              ELSE /\ raised' = raised
                   /\ todo' = list_nodes(domains)
                   /\ pc' = Head(phases)
                   /\ phases' = Tail(phases)
                   /\ UNCHANGED <<ret, cur, polls>>
    /\ UNCHANGED <<domains, active, desc, connOpen, call, log, submitted>>

\* `for node in nodes: self.shutdown_node(node.name())`
ShutdownAllLoop ==
    /\ pc = "shutdown_all_nodes"
    /\ IF todo = <<>>
       THEN /\ pc' = "phase"
            /\ UNCHANGED <<active, log, raised, ret, cur, todo, phases, polls>>
       ELSE \E destroyFails \in BOOLEAN :
              LET r == shutdown_node(Head(todo), active, log, destroyFails)
              IN  /\ active' = r.active
                  /\ log' = r.log
                  /\ IF r.exc = NoExc
                     THEN /\ raised' = raised
                          /\ todo' = Tail(todo)
                          /\ UNCHANGED <<pc, ret, cur, phases, polls>>
                     ELSE /\ raised' = raised \cup {r.exc}
                          /\ Fail(r.exc)
    /\ UNCHANGED <<domains, desc, connOpen, call, submitted>>

\* format_node_disk(node_name): reformats the node's backing disk image, or
\* fails with the disk-image tool's failure.
format_node_disk(node_name, lg, toolFails) ==
    LET lg1 == Append(lg, Entry("format_node_disk", node_name, "format_node_disk"))
    IN  IF toolFails
        THEN [log |-> lg1,
              exc |-> Failure("SubprocessFailure", "qemu-img", node_name, "format_node_disk")]
        ELSE [log |-> lg1, exc |-> NoExc]

\* `for node in nodes: self.format_node_disk(node.name())`
FormatAllLoop ==
    /\ pc = "format_all_node_disks"
    /\ IF todo = <<>>
       THEN /\ pc' = "phase"
            /\ UNCHANGED <<log, raised, ret, cur, todo, phases, polls>>
       ELSE \E toolFails \in BOOLEAN :
              LET r == format_node_disk(Head(todo), log, toolFails)
              IN  /\ log' = r.log
                  /\ IF r.exc = NoExc
                     THEN /\ raised' = raised
                          /\ todo' = Tail(todo)
                          /\ UNCHANGED <<pc, ret, cur, phases, polls>>
                     ELSE /\ raised' = raised \cup {r.exc}
                          /\ Fail(r.exc)
    /\ UNCHANGED <<domains, active, desc, connOpen, call, submitted>>

CallIsActive ==
    /\ pc = "idle" /\ connOpen
    /\ \E n \in NameInputs :
         /\ call' = Call("is_active", n, None)
         /\ IF n \notin Range(domains)
            THEN LET e == LibvirtError("lookupByName", n, "is_active")
                 IN  raised' = {e} /\ Fail(e)
            ELSE raised' = {} /\ Done(active[n])
    /\ log' = <<>> /\ submitted' = <<>>
    /\ UNCHANGED <<domains, active, desc, connOpen>>

\* get_node_ips_and_macs: the lease query outside any wait.
CallGetNodeIpsAndMacs ==
    /\ pc = "idle" /\ connOpen
    /\ \E n \in NameInputs, outcome \in {"ips", "noips", "error"} :
         /\ call' = Call("get_node_ips_and_macs", n, None)
         /\ IF n \notin Range(domains)
            THEN LET e == LibvirtError("lookupByName", n, "get_node_ips_and_macs")
                 IN  raised' = {e} /\ Fail(e)
            ELSE IF outcome = "error"
            THEN LET e == LibvirtError("interfaceAddresses", n, "get_node_ips_and_macs")
                 IN  raised' = {e} /\ Fail(e)
            ELSE /\ raised' = {}
                 /\ Done(IF outcome = "ips" THEN <<<<"ip">>, <<"mac">>>>
                                           ELSE <<<<>>, <<>>>>)
    /\ log' = <<>> /\ submitted' = <<>>
    /\ UNCHANGED <<domains, active, desc, connOpen>>

\* `with suppress(Exception):`
Suppressed(e) == TRUE

\* __del__: the session is closed; a failure of close() is suppressed.
Teardown ==
    /\ pc = "idle" /\ connOpen
    /\ call' = Call("__del__", None, None)
    /\ connOpen' = FALSE
    /\ \E closeFails \in BOOLEAN :
         LET e == LibvirtError("close", None, "__del__")
         IN  IF closeFails
             THEN /\ raised' = {e}
                  /\ IF Suppressed(e) THEN Done(None) ELSE Fail(e)
             ELSE raised' = {} /\ Done(None)
    /\ log' = <<>> /\ submitted' = <<>>
    /\ UNCHANGED <<domains, active, desc>>


(***************************************************************************)
(* Descriptors.  A descriptor is the parsed XML of a domain: the children  *)
(* of its os element in document order, and the text of its vcpu, memory   *)
(* and currentMemory elements.  A text is a sequence of characters; the    *)
(* empty text stands for an element without a text child.                  *)
(***************************************************************************)
Digits == <<"0", "1", "2", "3", "4", "5", "6", "7", "8", "9">>

\* "%s" % n for a natural number n, as toprettyxml() writes a text node's data.
RECURSIVE str(_)
str(n) == IF n < 10 THEN <<Digits[n + 1]>>
          ELSE Append(str(n \div 10), Digits[(n % 10) + 1])

DigitValue(c) == CHOOSE d \in 0..9 : Digits[d + 1] = c

\* int(text) for a non-empty text of decimal digits.
RECURSIVE int(_)
int(text) == IF Len(text) = 1 THEN DigitValue(text[1])
             ELSE 10 * int(SubSeq(text, 1, Len(text) - 1)) + DigitValue(text[Len(text)])

Boot(dev) == [tag |-> "boot", dev |-> dev]
TypeElement == [tag |-> "type", dev |-> ""]

BootPool == {Boot("cdrom"), Boot("hd"), Boot("floppy")}

DefaultDescriptor ==
    [os |-> <<TypeElement, Boot("hd")>>, vcpu |-> str(2),
     memory |-> str(2048), currentMemory |-> str(2048)]

\* getElementsByTagName('boot') on the os element: a list built at the call.
getElementsByTagName_boot(os) == SelectSeq(os, LAMBDA el : el.tag = "boot")

\* removeChild(el): el is the first child equal to it, because the loop
\* visits the boot elements in document order and has removed the ones before.
removeChild(os, el) ==
    LET i == CHOOSE k \in 1..Len(os) :
                 os[k] = el /\ \A j \in 1..(k - 1) : os[j] # el
    IN  SubSeq(os, 1, i - 1) \o SubSeq(os, i + 1, Len(os))

ValueError == Failure("ValueError", "", None, "set_boot_order")

\* The loop skips a boot element of an unexpected kind.
RECURSIVE delete_boot_elements_skip(_, _)
delete_boot_elements_skip(os, els) ==
    IF els = <<>> THEN [os |-> os, exc |-> NoExc]
    ELSE IF Head(els).dev \in {"cdrom", "hd"}
    THEN delete_boot_elements_skip(removeChild(os, Head(els)), Tail(els))
    ELSE delete_boot_elements_skip(os, Tail(els))

\* The loop removes the first boot element only.
delete_boot_elements_first_only(os, els) ==
    IF els = <<>> THEN [os |-> os, exc |-> NoExc]
    ELSE IF Head(els).dev \in {"cdrom", "hd"}
    THEN [os |-> removeChild(os, Head(els)), exc |-> NoExc]
    ELSE [os |-> os, exc |-> ValueError]

\* Lines 164-169: `for el in os_element.getElementsByTagName('boot')`.
RECURSIVE delete_boot_elements(_, _)
delete_boot_elements(os, els) ==
    IF els = <<>> THEN [os |-> os, exc |-> NoExc]
    ELSE IF Head(els).dev \in {"cdrom", "hd"}
    THEN delete_boot_elements(removeChild(os, Head(els)), Tail(els))
    ELSE [os |-> os, exc |-> ValueError]

\* Lines 162-176: the in-memory tree set_boot_order builds, and the
\* exception of the loop (then the tree is the partly mutated one).
set_boot_order(xml, cd_first) ==
    LET r == delete_boot_elements(xml.os, getElementsByTagName_boot(xml.os))
        first == Boot(IF cd_first THEN "cdrom" ELSE "hd")
        second == Boot(IF cd_first THEN "hd" ELSE "cdrom")
    IN  IF r.exc # NoExc
        THEN [xml |-> [xml EXCEPT !.os = r.os], exc |-> r.exc]
        ELSE [xml |-> [xml EXCEPT !.os = Append(Append(r.os, first), second)],
              exc |-> NoExc]

\* Text.replaceWholeText(content) on an only text child, as written out by
\* toprettyxml(): a falsy content removes the text node.
replaceWholeText(content) == IF content = 0 THEN <<>> ELSE str(content)

\* set_ram_kib writes the memory element only.
set_ram_kib_memory_only(xml, ram_kib) ==
    [xml EXCEPT !.memory = replaceWholeText(ram_kib)]

\* set_ram_kib writes the vcpu element as well.
set_ram_kib_and_vcpu(xml, ram_kib) ==
    [xml EXCEPT !.memory = replaceWholeText(ram_kib),
                !.currentMemory = replaceWholeText(ram_kib),
                !.vcpu = replaceWholeText(ram_kib)]

\* Lines 208-211: the in-memory tree set_ram_kib builds.
set_ram_kib(xml, ram_kib) ==
    [xml EXCEPT !.memory = replaceWholeText(ram_kib),
                !.currentMemory = replaceWholeText(ram_kib)]

\* The hypervisor defines no domain without a positive amount of memory.
DefinableXML(xml) == xml.memory # <<>> /\ int(xml.memory) > 0

DefineOutcomes(xml) ==
    IF DefinableXML(xml) THEN {"defined", "none", "error"} ELSE {"none", "error"}

\* ram_kib arguments: the falsy 0 and two amounts of memory.
RamInputs == {0, 1024, 4194304}

\* defineXML(xml) for the domain node_name and what follows it: the
\* descriptor is replaced only when the hypervisor defines the domain.
DefineXML(op, node_name, xml, outcome) ==
    /\ submitted' = <<[xml |-> xml, answer |-> outcome]>>
    /\ IF outcome = "defined"
       THEN /\ desc' = [desc EXCEPT ![node_name] = xml]
            /\ raised' = {}
            /\ Done(None)
       ELSE IF outcome = "none"
       THEN /\ desc' = desc
            /\ raised' = {}
            /\ Fail(Failure("Exception", "defineXML", node_name, op))
       ELSE /\ desc' = desc
            /\ raised' = {LibvirtError("defineXML", node_name, op)}
            /\ Fail(LibvirtError("defineXML", node_name, op))

CallSetBootOrder ==
    /\ pc = "idle" /\ connOpen
    /\ \E n \in NameInputs, cd_first \in BOOLEAN :
         /\ call' = Call("set_boot_order", n, cd_first)
         /\ IF n \notin Range(domains)
            THEN LET e == LibvirtError("lookupByName", n, "set_boot_order")
                 IN  raised' = {e} /\ Fail(e) /\ submitted' = <<>> /\ desc' = desc
            ELSE LET r == set_boot_order(desc[n], cd_first)
                 IN  IF r.exc # NoExc
                     THEN raised' = {} /\ Fail(r.exc) /\ submitted' = <<>> /\ desc' = desc
                     ELSE \E outcome \in DefineOutcomes(r.xml) :
                            DefineXML("set_boot_order", n, r.xml, outcome)
    /\ log' = <<>>
    /\ UNCHANGED <<domains, active, connOpen>>

CallSetRamKib ==
    /\ pc = "idle" /\ connOpen
    /\ \E n \in NameInputs, ram_kib \in RamInputs :
         /\ call' = Call("set_ram_kib", n, ram_kib)
         /\ IF n \notin Range(domains)
            THEN LET e == LibvirtError("lookupByName", n, "_get_xml")
                 IN  raised' = {e} /\ Fail(e) /\ submitted' = <<>> /\ desc' = desc
            ELSE LET xml == set_ram_kib(desc[n], ram_kib)
                 IN  \E outcome \in DefineOutcomes(xml) :
                       DefineXML("set_ram_kib", n, xml, outcome)
    /\ log' = <<>>
    /\ UNCHANGED <<domains, active, connOpen>>

\* get_ram_kib: int(currentMemory.firstChild.nodeValue).
CallGetRamKib ==
    /\ pc = "idle" /\ connOpen
    /\ \E n \in NameInputs :
         /\ call' = Call("get_ram_kib", n, None)
         /\ IF n \notin Range(domains)
            THEN LET e == LibvirtError("lookupByName", n, "_get_xml")
                 IN  raised' = {e} /\ Fail(e)
            ELSE IF desc[n].currentMemory = <<>>
            THEN raised' = {} /\ Fail(Failure("AttributeError", "", n, "get_ram_kib"))
            ELSE raised' = {} /\ Done(int(desc[n].currentMemory))
    /\ log' = <<>> /\ submitted' = <<>>
    /\ UNCHANGED <<domains, active, desc, connOpen>>

\* get_cpu_cores: int(vcpu.firstChild.nodeValue).
CallGetCpuCores ==
    /\ pc = "idle" /\ connOpen
    /\ \E n \in NameInputs :
         /\ call' = Call("get_cpu_cores", n, None)
         /\ IF n \notin Range(domains)
            THEN LET e == LibvirtError("lookupByName", n, "_get_xml")
                 IN  raised' = {e} /\ Fail(e)
            ELSE raised' = {} /\ Done(int(desc[n].vcpu))
    /\ log' = <<>> /\ submitted' = <<>>
    /\ UNCHANGED <<domains, active, desc, connOpen>>


(***************************************************************************)
(* Listing                                                                 *)
(***************************************************************************)
Mast == <<"m", "a", "s", "t">>
Master1 == MASTER \o <<"-", "1">>

NamePool == {Master0, Master1, Worker0, Bootstrap, Mast}

FilterInputs == {None, <<>>, MASTER, <<"-">>, <<"0">>, <<"o">>, Bootstrap}

\* The inventories of at most MaxDomains domains: names are unique.
Inventories ==
    UNION {{s \in [1..k -> NamePool] : \A i, j \in 1..k : i # j => s[i] # s[j]} :
           k \in 0..MaxDomains}

\* list_nodes() and list_nodes_with_name_filter(name_filter).
CallListNodes ==
    /\ pc = "idle" /\ connOpen
    /\ \E op \in {"list_nodes", "list_nodes_with_name_filter"} :
       \E name_filter \in IF op = "list_nodes" THEN {None} ELSE FilterInputs :
       \E listFails \in BOOLEAN :
         /\ call' = Call(op, None, name_filter)
         /\ IF listFails
            THEN LET e == LibvirtError("listAllDomains", None,
                                       "list_nodes_with_name_filter")
                 IN  raised' = {e} /\ Fail(e)
            ELSE /\ raised' = {}
                 /\ Done(list_nodes_with_name_filter(domains, name_filter))
    /\ log' = <<>> /\ submitted' = <<>>
    /\ UNCHANGED <<domains, active, desc, connOpen>>

(***************************************************************************)
(* Specifications                                                          *)
(***************************************************************************)
InitController ==
    /\ connOpen = TRUE
    /\ pc = "idle"
    /\ call = Call("__init__", None, None)
    /\ ret = Ok(None)
    /\ cur = None /\ todo = <<>> /\ phases = <<>> /\ polls = 0
    /\ log = <<>> /\ raised = {} /\ submitted = <<>>

\* Lifecycle: three domains, two of them nodes, in any power state.
Init ==
    /\ domains = LifecycleDomains
    /\ active \in [Range(LifecycleDomains) -> BOOLEAN]
    /\ desc = [n \in Range(LifecycleDomains) |-> DefaultDescriptor]
    /\ InitController

Next ==
    \/ CallShutdownNode
    \/ CallStartNode
    \/ CallRestartNode
    \/ StartNode
    \/ Create
    \/ Poll
    \/ RetryShutdown
    \/ CallStartAllNodes
    \/ StartAllLoop
    \/ CallAllNodes
    \/ Phase
    \/ ShutdownAllLoop
    \/ FormatAllLoop
    \/ CallIsActive
    \/ CallGetNodeIpsAndMacs
    \/ Teardown

Spec == Init /\ [][Next]_vars

\* Descriptors: two domains; the os element of the first holds its type
\* element and then any boot elements.
DescDomains == <<Master0, Worker0>>

BoundedSeq(S, n) == UNION {[1..k -> S] : k \in 0..n}

InitDescriptors ==
    {[DefaultDescriptor EXCEPT !.os = <<TypeElement>> \o boots, !.vcpu = str(16)] :
        boots \in BoundedSeq(BootPool, MaxBootElements)}

InitDesc ==
    /\ domains = DescDomains
    /\ active = [n \in Range(DescDomains) |-> n = Worker0]
    /\ \E d \in InitDescriptors :
         desc = [n \in Range(DescDomains) |->
                    IF n = Master0 THEN d ELSE DefaultDescriptor]
    /\ InitController

NextDesc ==
    \/ CallSetBootOrder
    \/ CallSetRamKib
    \/ CallGetRamKib
    \/ CallGetCpuCores

SpecDesc == InitDesc /\ [][NextDesc]_vars

\* Listing: any inventory.
InitList ==
    /\ domains \in Inventories
    /\ active = [n \in Range(domains) |-> FALSE]
    /\ desc = [n \in Range(domains) |-> DefaultDescriptor]
    /\ InitController

NextList == CallListNodes

SpecList == InitList /\ [][NextList]_vars


(***************************************************************************)
(* Properties                                                              *)
(***************************************************************************)
IsPrefix(s, t) == Len(s) <= Len(t) /\ SubSeq(t, 1, Len(s)) = s

Apis(lg) == [i \in 1..Len(lg) |-> lg[i].api]

CountApi(lg, api) == Cardinality({i \in 1..Len(lg) : lg[i].api = api})

\* The part of the log made by the latest call of start_node.
StartNodeSegment ==
    LET idx == {i \in 1..Len(log) : log[i].api = "start_node"}
    IN  IF idx = {} THEN <<>>
        ELSE SubSeq(log, CHOOSE i \in idx : \A j \in idx : j <= i, Len(log))

\* The entries the step adds to the log; an operation starts a new log.
NewEntries ==
    IF pc = "idle" THEN log' ELSE SubSeq(log', Len(log) + 1, Len(log'))

Issued(api, node, fn) ==
    \E i \in 1..Len(NewEntries) : NewEntries[i] = Entry(api, node, fn)

Nodes == Range(list_nodes(domains))

StartNodeWithRetry ==
    <<"start_node", "create", "wait", "TimeoutExpired",
      "shutdown_node", "destroy", "create", "wait", "TimeoutExpired">>

\* C1: start_node on an inactive node powers it on and waits for an IP; a
\* timeout of that wait is followed by shutdown_node, a second power-on and
\* one more wait, and a timeout of the second wait leaves start_node as
\* TimeoutExpired.  One call of start_node makes at most two create() calls
\* and at most two waits.
C1_SingleRetry ==
    /\ [](LET seg == Apis(StartNodeSegment)
          IN  /\ IsPrefix(seg, StartNodeWithRetry)
              /\ CountApi(StartNodeSegment, "create") <= 2
              /\ CountApi(StartNodeSegment, "wait") <= 2
              /\ (Len(seg) = 4) => pc = "retry_shutdown"
              /\ (seg = StartNodeWithRetry) =>
                    /\ pc = "idle"
                    /\ ret.status = "raise"
                    /\ ret.exc.type = "TimeoutExpired"
              /\ (pc = "idle" /\ ret.status = "ok"
                    /\ call.op \in {"start_node", "restart_node"}) =>
                    Len(seg) \in {1, 3, 8})
    /\ [][(pc = "start_node" /\ cur \in Range(domains) /\ ~active[cur]) =>
             pc' = "create1"]_vars
    /\ [][(pc \in {"create1", "create2"} /\ active'[cur]) =>
             (Issued("create", cur, "start_node")
                /\ Issued("wait", cur, "_wait_till_domain_has_ips"))]_vars

C1_Witness ==
    /\ pc = "idle"
    /\ call.op = "start_node"
    /\ ret = Raise(TimeoutExpired(call.node))
    /\ Apis(log) = StartNodeWithRetry

\* C2 as stated: outside teardown, every failure a hypervisor call raises
\* during an operation ends the operation and is its result, the lease
\* query of the IP-wait poll included.
C2_EveryFailurePropagates ==
    (pc = "idle" /\ call.op # "__del__") =>
        \A e \in raised : ret = Raise(e)

\* C2 amended: outside teardown, every failure a hypervisor call raises
\* outside the IP-wait poll ends the operation and is its result; a failure
\* of the lease query inside the IP-wait poll is suppressed and the poll goes
\* on, so that the operation ends normally, with TimeoutExpired or with a
\* later failure; teardown ends normally whatever close() raises.
C2_FailuresPropagateOutsidePoll ==
    /\ (call.op # "__del__") =>
          \A e \in raised :
             (e.fn # "_wait_till_domain_has_ips") => (pc = "idle" /\ ret = Raise(e))
    /\ (pc = "idle" /\ ret.status = "raise") =>
          (ret.exc \in raised \/ ret.exc.type = "TimeoutExpired")
    /\ (ret.status = "raise" /\ ret.exc.type = "TimeoutExpired") =>
          CountApi(StartNodeSegment, "TimeoutExpired") = 2
    /\ (call.op = "__del__") => ret = Ok(None)

C2_Witness ==
    /\ pc = "idle"
    /\ call.op = "start_node"
    /\ ret = Ok(None)
    /\ LibvirtError("interfaceAddresses", call.node, "_wait_till_domain_has_ips")
          \in raised

\* C5: shutdown_node on an inactive node issues no destroy() and leaves the
\* power states as they are; a shutdown_node issues at most one destroy(),
\* and a second shutdown_node right after a first one changes nothing and
\* issues none.
C5_ShutdownIdempotent ==
    /\ []((call.op = "shutdown_node") => CountApi(log, "destroy") <= 1)
    /\ []((pc = "idle" /\ call.op = "shutdown_node" /\ ret.status = "ok") =>
             ~active[call.node])
    /\ [][(pc = "idle" /\ call'.op = "shutdown_node"
             /\ call'.node \in Range(domains) /\ ~active[call'.node]) =>
            (/\ active' = active
             /\ CountApi(log', "destroy") = 0
             /\ ret' = Ok(None))]_vars
    /\ [][(pc = "idle" /\ call.op = "shutdown_node" /\ ret.status = "ok"
             /\ call'.op = "shutdown_node" /\ call'.node = call.node) =>
            (/\ active' = active
             /\ CountApi(log', "destroy") = 0
             /\ ret' = Ok(None))]_vars

C5_Witness ==
    /\ pc = "idle"
    /\ call.op = "shutdown_node"
    /\ ret = Ok(None)
    /\ call.node \in Range(domains)
    /\ CountApi(log, "destroy") = 0

\* C6: after start_node or restart_node returns normally the node is active
\* and is_active called next returns True; a node becomes active only by a
\* create() issued in start_node and inactive only by a destroy() issued in
\* shutdown_node.
C6_StartedIsActive ==
    /\ []((pc = "idle" /\ call.op \in {"start_node", "restart_node"}
             /\ ret.status = "ok") => active[call.node])
    /\ [][(pc = "idle" /\ call.op \in {"start_node", "restart_node"}
             /\ ret.status = "ok"
             /\ call'.op = "is_active" /\ call'.node = call.node) =>
            ret' = Ok(TRUE)]_vars
    /\ [][\A n \in Range(domains) :
             /\ (~active[n] /\ active'[n]) => Issued("create", n, "start_node")
             /\ (active[n] /\ ~active'[n]) => Issued("destroy", n, "shutdown_node")]_vars

C6_Witness ==
    /\ pc = "idle"
    /\ call.op = "restart_node"
    /\ ret = Ok(None)
    /\ active[call.node]
    /\ CountApi(log, "destroy") = 1
    /\ CountApi(log, "create") = 2

\* C7: in destroy_all_nodes no disk is reformatted before shutdown_node has
\* run for every listed node and left it inactive; when destroy_all_nodes
\* returns normally every listed node is inactive and has had its disk
\* reformatted.
C7_ShutdownBeforeFormat ==
    (call.op = "destroy_all_nodes") =>
        /\ \A i \in 1..Len(log) :
              (log[i].api = "format_node_disk") =>
                 \A n \in Nodes :
                    /\ ~active[n]
                    /\ \E j \in 1..(i - 1) :
                          log[j] = Entry("shutdown_node", n, "shutdown_node")
        /\ (pc = "idle" /\ ret.status = "ok") =>
              \A n \in Nodes :
                 /\ ~active[n]
                 /\ \E i \in 1..Len(log) :
                       log[i] = Entry("format_node_disk", n, "format_node_disk")

C7_Witness ==
    /\ pc = "idle"
    /\ call.op = "destroy_all_nodes"
    /\ ret = Ok(None)
    /\ CountApi(log, "destroy") = 2
    /\ CountApi(log, "format_node_disk") = 2


BootDevs(os) ==
    LET boots == getElementsByTagName_boot(os)
    IN  [i \in 1..Len(boots) |-> boots[i].dev]

OtherChildren(os) == SelectSeq(os, LAMBDA el : el.tag # "boot")

\* C3: when set_boot_order returns normally, the descriptor passed to
\* defineXML, which is the node's descriptor from then on, has exactly two
\* boot elements under os: cdrom then hd for cd_first, hd then cdrom otherwise.
C3_BootOrder ==
    (pc = "idle" /\ call.op = "set_boot_order" /\ ret.status = "ok") =>
        /\ Len(submitted) = 1
        /\ submitted[1].xml = desc[call.node]
        /\ BootDevs(submitted[1].xml.os) =
              IF call.arg THEN <<"cdrom", "hd">> ELSE <<"hd", "cdrom">>

C3_Witness ==
    /\ pc = "idle"
    /\ call.op = "set_boot_order"
    /\ call.arg = TRUE
    /\ ret = Ok(None)
    /\ desc[call.node].os = <<TypeElement, Boot("cdrom"), Boot("hd")>>

\* C4: set_boot_order on a node whose descriptor has a boot element that is
\* neither cdrom nor hd raises ValueError, calls defineXML not at all and
\* leaves every descriptor as it was.
C4_UnexpectedBootDevice ==
    [][(call'.op = "set_boot_order" /\ call'.node \in Range(domains)
          /\ \E i \in 1..Len(desc[call'.node].os) :
                /\ desc[call'.node].os[i].tag = "boot"
                /\ desc[call'.node].os[i].dev \notin {"cdrom", "hd"}) =>
         (/\ ret' = Raise(ValueError)
          /\ submitted' = <<>>
          /\ desc' = desc)]_vars

C4_Witness ==
    /\ pc = "idle"
    /\ call.op = "set_boot_order"
    /\ ret = Raise(ValueError)
    /\ submitted = <<>>
    /\ BootDevs(desc[call.node].os) = <<"cdrom", "floppy", "hd">>

\* C9: when set_ram_kib returns normally, the descriptor passed to defineXML,
\* which is the node's descriptor from then on, has ram_kib as its memory and
\* as its currentMemory, and get_ram_kib called next returns ram_kib; when
\* the hypervisor does not define the domain, set_ram_kib raises.
C9_RamRoundTrip ==
    /\ []((pc = "idle" /\ call.op = "set_ram_kib" /\ ret.status = "ok") =>
            /\ Len(submitted) = 1
            /\ submitted[1].xml = desc[call.node]
            /\ submitted[1].xml.memory # <<>>
            /\ submitted[1].xml.currentMemory # <<>>
            /\ int(submitted[1].xml.memory) = call.arg
            /\ int(submitted[1].xml.currentMemory) = call.arg)
    /\ []((pc = "idle" /\ call.op = "set_ram_kib" /\ Len(submitted) = 1
             /\ submitted[1].answer # "defined") => ret.status = "raise")
    /\ [][(call.op = "set_ram_kib" /\ ret.status = "ok"
             /\ call'.op = "get_ram_kib" /\ call'.node = call.node) =>
            ret' = Ok(call.arg)]_vars

C9_Witness ==
    /\ pc = "idle"
    /\ call.op = "set_ram_kib"
    /\ call.arg = 1024
    /\ ret = Ok(None)
    /\ desc[call.node].currentMemory = <<"1", "0", "2", "4">>

\* C10: set_boot_order leaves vcpu, memory, currentMemory and the children of
\* os other than boot as they are; set_ram_kib leaves the children of os and
\* vcpu as they are; neither changes the descriptor of another node or the
\* power state of any node.
C10_Frame ==
    [][/\ (call'.op = "set_boot_order" /\ call'.node \in Range(domains)) =>
            LET n == call'.node
            IN  /\ desc'[n].vcpu = desc[n].vcpu
                /\ desc'[n].memory = desc[n].memory
                /\ desc'[n].currentMemory = desc[n].currentMemory
                /\ OtherChildren(desc'[n].os) = OtherChildren(desc[n].os)
                /\ \A i \in 1..Len(submitted') :
                      /\ submitted'[i].xml.vcpu = desc[n].vcpu
                      /\ submitted'[i].xml.memory = desc[n].memory
                      /\ submitted'[i].xml.currentMemory = desc[n].currentMemory
       /\ (call'.op = "set_ram_kib" /\ call'.node \in Range(domains)) =>
            LET n == call'.node
            IN  /\ desc'[n].vcpu = desc[n].vcpu
                /\ desc'[n].os = desc[n].os
                /\ \A i \in 1..Len(submitted') :
                      /\ submitted'[i].xml.vcpu = desc[n].vcpu
                      /\ submitted'[i].xml.os = desc[n].os
       /\ (call'.op \in {"set_boot_order", "set_ram_kib"}) =>
            /\ active' = active
            /\ domains' = domains
            /\ \A m \in Range(domains) : (m # call'.node) => desc'[m] = desc[m]]_vars

C10_Witness ==
    /\ pc = "idle"
    /\ call.op = "set_ram_kib"
    /\ call.node = Master0
    /\ ret = Ok(None)
    /\ desc[Master0].memory = str(4194304)
    /\ desc[Master0].vcpu = str(16)
    /\ BootDevs(desc[Master0].os) = <<"hd", "cdrom">>
    /\ desc[Worker0] = DefaultDescriptor

\* res holds, in the order of doms, the names of doms that satisfy P.
OrderedSelection(res, doms, P(_)) ==
    /\ Range(res) = {d \in Range(doms) : P(d)}
    /\ \A i, j \in 1..Len(res) :
          (i < j) =>
             \E k, l \in 1..Len(doms) :
                k < l /\ doms[k] = res[i] /\ doms[l] = res[j]

HasRoleMarker(d) == Contains(MASTER, d) \/ Contains(WORKER, d)

\* C8: list_nodes returns the domains whose name contains master or worker,
\* in the hypervisor's order; list_nodes_with_name_filter(f) returns the
\* elements of that list whose name contains f, all of them for f empty or
\* None.
C8_ListNodes ==
    (pc = "idle" /\ ret.status = "ok"
        /\ call.op \in {"list_nodes", "list_nodes_with_name_filter"}) =>
        /\ (call.op = "list_nodes") =>
              OrderedSelection(ret.value, domains, HasRoleMarker)
        /\ OrderedSelection(list_nodes(domains), domains, HasRoleMarker)
        /\ LET restricts(d) == IF call.arg = None \/ call.arg = <<>> THEN TRUE
                               ELSE Contains(call.arg, d)
           IN  OrderedSelection(ret.value, list_nodes(domains), restricts)

C8_Witness ==
    /\ pc = "idle"
    /\ call.op = "list_nodes_with_name_filter"
    /\ call.arg = <<"0">>
    /\ domains = <<Master1, Mast, Master0>>
    /\ ret = Ok(<<Master0>>)

====
